---- MODULE Spec2Model ----
(***************************************************************************)
(* The remove-openshift worker of lagoon: messageConsumer, retryHandler    *)
(* and deathHandler, driven by the consumeTasks task consumer; and, at the *)
(* end of the module, the reset-project-keys migration script.             *)
(*                                                                         *)
(* One removal task is delivered twice (duplicate delivery                 *)
(* to competing workers).  Every delivery runs the handler; the handler's  *)
(* awaits (project lookup, cluster GET, cluster DELETE, API update) are    *)
(* the points where deliveries interleave, so each await is one action.    *)
(* Strings are sequences of one-character strings.                         *)
(***************************************************************************)
EXTENDS Integers, Sequences, FiniteSets

VARIABLES
  task,       \* the payload of the task message
  cluster,    \* names of the cluster projects that exist
  registry,   \* <<environment, project>> pairs the API has marked deleted
  pc,         \* where each delivery stands
  attempt,    \* number of the delivery's current attempt
  names,      \* openshiftProject / environmentName of the current attempt
  trace,      \* external calls of the current attempt, with their results
  prev,       \* external calls of the attempt before the current one
  sent,       \* events sent during the current attempt and its callback
  lastError,  \* the error the current attempt threw
  logCount,   \* events sent per delivery and level, over all attempts
  deleted,    \* deliveries whose cluster delete call succeeded
  mig         \* the reset-project-keys script: its position and the database

vars == <<task, cluster, registry, pc, attempt, names, trace, prev, sent,
          lastError, logCount, deleted, mig>>

(* ---------------------------- bounds ----------------------------------- *)

\* attempts the consumer allows one delivery before it dead-letters it
MaxAttempts == 2

\* the task message is delivered twice: two competing worker instances
Deliveries == { "w1", "w2" }

(* ---------------------------- strings ---------------------------------- *)

\* the value of a destructured field that the message does not carry
Undefined == <<"#undefined">>

\* a pullrequestNumber the message does not carry
NoNumber == -1

UpperCase == <<"A","B","C","D","E","F","G","H","I","J","K","L","M",
               "N","O","P","Q","R","S","T","U","V","W","X","Y","Z">>

LowerCase == <<"a","b","c","d","e","f","g","h","i","j","k","l","m",
               "n","o","p","q","r","s","t","u","v","w","x","y","z">>

Digits == <<"0","1","2","3","4","5","6","7","8","9">>

Range(s) == {s[i] : i \in DOMAIN s}

\* String.prototype.toLocaleLowerCase on one character
ToLower(c) ==
  IF c \in Range(UpperCase)
  THEN LowerCase[CHOOSE i \in DOMAIN UpperCase : UpperCase[i] = c]
  ELSE c

\* the character class [0-9a-z-]
SafeChars == Range(Digits) \cup Range(LowerCase) \cup {"-"}

\* a sanitizer that replaces without lowering the case first
ocsafetyNoLower(s) ==
  [i \in DOMAIN s |-> IF s[i] \in SafeChars THEN s[i] ELSE "-"]

\* ocsafety = string => string.toLocaleLowerCase().replace(/[^0-9a-z-]/g,'-')
ocsafety(s) ==
  [i \in DOMAIN s |-> IF ToLower(s[i]) \in SafeChars THEN ToLower(s[i]) ELSE "-"]

RECURSIVE NumToStr(_)
\* decimal rendering of a non-negative integer inside a template literal
NumToStr(n) ==
  IF n < 10 THEN <<Digits[n + 1]>>
  ELSE NumToStr(n \div 10) \o <<Digits[(n % 10) + 1]>>

\* `${x}` for a string field: undefined renders as the word undefined
StrTpl(x) ==
  IF x = Undefined THEN <<"u","n","d","e","f","i","n","e","d">> ELSE x

\* `${n}` for the pullrequestNumber field
NumTpl(n) ==
  IF n = NoNumber THEN <<"u","n","d","e","f","i","n","e","d">> ELSE NumToStr(n)

(* ---------------------------- task payloads ---------------------------- *)

\* JSON.parse(msg.content.toString()) destructured into the four fields
Task(p, b, n, ty) ==
  [ projectName |-> p, branch |-> b, pullrequestNumber |-> n, type |-> ty ]

ProjectNames == { <<"M","y","_","P">>, <<"a","c">> }

Branches == { <<"f","/","X">>, Undefined }

PullRequestNumbers == { 42, NoNumber }

Types == { "branch", "pullrequest", "deploy", "undefined" }

\* the payloads delivered: a branch task, a pull request task without and
\* with a branch name, a task of an unknown type, a task without a type,
\* and a branch task without a branch
Tasks ==
  { Task(<<"M","y","_","P">>, <<"f","/","X">>, NoNumber, "branch"),
    Task(<<"a","c">>, Undefined, 42, "pullrequest"),
    Task(<<"a","c">>, <<"f","/","X">>, 42, "pullrequest"),
    Task(<<"a","c">>, <<"f","/","X">>, NoNumber, "deploy"),
    Task(<<"M","y","_","P">>, Undefined, 42, "undefined"),
    Task(<<"a","c">>, Undefined, NoNumber, "branch") }

\* a task that satisfies the data model: kind known and its field present
ValidTask(t) ==
  \/ t.type = "branch" /\ t.branch # Undefined
  \/ t.type = "pullrequest" /\ t.pullrequestNumber # NoNumber

(* ---------------------------- name resolution -------------------------- *)

\* a resolver that hands the sanitized branch to the registry as well
ResolveNamesSafeEnv(t) ==
  LET safeProjectName == ocsafety(t.projectName) IN
  CASE t.type = "pullrequest" ->
         [ threw |-> FALSE,
           environmentName |-> <<"p","r","-">> \o NumTpl(t.pullrequestNumber),
           openshiftProject |->
             safeProjectName \o <<"-","p","r","-">> \o NumTpl(t.pullrequestNumber) ]
    [] t.type = "branch" /\ t.branch = Undefined ->
         [ threw |-> TRUE,
           environmentName |-> Undefined,
           openshiftProject |-> Undefined ]
    [] t.type = "branch" /\ t.branch # Undefined ->
         [ threw |-> FALSE,
           environmentName |-> ocsafety(t.branch),
           openshiftProject |-> safeProjectName \o <<"-">> \o ocsafety(t.branch) ]
    [] OTHER ->
         [ threw |-> FALSE,
           environmentName |-> Undefined,
           openshiftProject |-> Undefined ]

\* the try block of messageConsumer: threw is TRUE when it raises
\* (ocsafety of an undefined branch); a type that matches no case leaves
\* both names undefined and raises nothing
ResolveNames(t) ==
  LET safeProjectName == ocsafety(t.projectName) IN
  CASE t.type = "pullrequest" ->
         [ threw |-> FALSE,
           environmentName |-> <<"p","r","-">> \o NumTpl(t.pullrequestNumber),
           openshiftProject |->
             safeProjectName \o <<"-","p","r","-">> \o NumTpl(t.pullrequestNumber) ]
    [] t.type = "branch" /\ t.branch = Undefined ->
         [ threw |-> TRUE,
           environmentName |-> Undefined,
           openshiftProject |-> Undefined ]
    [] t.type = "branch" /\ t.branch # Undefined ->
         [ threw |-> FALSE,
           environmentName |-> t.branch,
           openshiftProject |-> safeProjectName \o <<"-">> \o ocsafety(t.branch) ]
    [] OTHER ->
         [ threw |-> FALSE,
           environmentName |-> Undefined,
           openshiftProject |-> Undefined ]

\* branch || pullrequestNumber inside the handlers' template literal
BranchOrNumber(t) ==
  IF t.branch # Undefined /\ t.branch # <<>> THEN t.branch
  ELSE NumTpl(t.pullrequestNumber)

\* const openshiftProject = ocsafety(`${projectName}-${branch || pullrequestNumber}`)
HandlerProjectName(t) ==
  ocsafety(StrTpl(t.projectName) \o <<"-">> \o BranchOrNumber(t))

NoNames == [ threw |-> FALSE, environmentName |-> Undefined,
             openshiftProject |-> Undefined ]

(* ---------------------------- events ----------------------------------- *)

Levels == { "success", "warn", "error" }

\* one sendToLagoonLogs call
LogEvent(level, t, event, project) ==
  [ level |-> level, projectName |-> t.projectName, event |-> event,
    openshiftProject |-> project ]

\* sendToLagoonLogs by delivery d: appended to the attempt's events, counted
Emit(d, e) ==
  /\ sent' = [sent EXCEPT ![d] = Append(@, e)]
  /\ logCount' = [logCount EXCEPT ![d][e.level] = @ + 1]

\* the cluster project the task is about, as messageConsumer names it
ClusterName == ResolveNames(task).openshiftProject

\* the registry record the task is about
RegistryKey == <<ResolveNames(task).environmentName, task.projectName>>

\* one external call of the current attempt with its result; existed tells
\* whether the task's cluster project was there when the call was served
Call(op, arg, res) ==
  [ op |-> op, arg |-> arg, res |-> res, existed |-> ClusterName \in cluster ]

Record(d, c) == trace' = [trace EXCEPT ![d] = Append(@, c)]

(* ---------------------------- initial state ---------------------------- *)

\* the reset-project-keys script is a separate process: while the worker
\* runs, it is not running
MigIdle == [ status |-> "idle" ]

\* The cluster project may or may not exist when the task arrives (it may
\* have been cleaned up by hand).  For a task whose names stay undefined,
\* what the cluster answers to projects(undefined) is not known from the
\* worker's code: both answers are admitted.
Init ==
  /\ task \in Tasks
  /\ cluster \in SUBSET { ResolveNames(task).openshiftProject }
  /\ registry = {}
  /\ pc = [d \in Deliveries |-> "queued"]
  /\ attempt = [d \in Deliveries |-> 0]
  /\ names = [d \in Deliveries |-> NoNames]
  /\ trace = [d \in Deliveries |-> <<>>]
  /\ prev = [d \in Deliveries |-> <<>>]
  /\ sent = [d \in Deliveries |-> <<>>]
  /\ lastError = [d \in Deliveries |-> "none"]
  /\ logCount = [d \in Deliveries |-> [l \in Levels |-> 0]]
  /\ deleted = {}
  /\ mig = MigIdle

(* ---------------------------- messageConsumer -------------------------- *)

\* the handler throws: the attempt ends as failed with error e
Throw(d, e) ==
  /\ pc' = [pc EXCEPT ![d] = "failed"]
  /\ lastError' = [lastError EXCEPT ![d] = e]

\* outcomes of getOpenShiftInfoForProject: the project with its openshift
\* configuration, a project without one, or a rejected lookup
InfoResults == { "ok", "noconfig", "err" }

\* line 26: the lookup rejects outside the try block, the handler rejects
InfoRejected(d) ==
  /\ Throw(d, "ApiError")
  /\ UNCHANGED names

\* lines 29-48: the try block ran through, the names are set
InfoResolved(d) ==
  /\ names' = [names EXCEPT ![d] = ResolveNames(task)]
  /\ pc' = [pc EXCEPT ![d] = "probe"]
  /\ UNCHANGED lastError

\* a handler that goes on with an empty console url when the project has
\* no openshift configuration
InfoNoConfigGoesOn(d) ==
  IF ResolveNames(task).threw
  THEN Throw(d, "TypeError") /\ UNCHANGED names
  ELSE InfoResolved(d)

\* lines 31, 50-53: reading console_url of a missing openshift object
\* raises a TypeError, which the catch logs and rethrows
InfoNoConfig(d) ==
  /\ Throw(d, "TypeError")
  /\ UNCHANGED names

\* lines 44, 50-53: ocsafety of an undefined branch raises a TypeError,
\* which the catch logs and rethrows
InfoResolveThrew(d) ==
  /\ Throw(d, "TypeError")
  /\ UNCHANGED names

\* lines 26-53: await getOpenShiftInfoForProject, then the try block that
\* derives console url, token and the two names
GetInfo(d) ==
  /\ pc[d] = "info"
  /\ \E r \in InfoResults :
       /\ Record(d, Call("getOpenShiftInfoForProject", task.projectName, r))
       /\ CASE r = "err" -> InfoRejected(d)
            [] r = "noconfig" -> InfoNoConfig(d)
            [] r = "ok" /\ ResolveNames(task).threw -> InfoResolveThrew(d)
            [] OTHER -> InfoResolved(d)
  /\ UNCHANGED <<mig, task, cluster, registry, attempt, prev, sent, logCount, deleted>>

\* what openshift.projects(name).get can answer in the current cluster state
ProbeResults(name) ==
  (IF name \in cluster THEN {"200"} ELSE {"404"}) \cup {"err"}

\* lines 69-70: the get resolved, the handler goes on to the delete
ProbeFound(d) ==
  /\ pc' = [pc EXCEPT ![d] = "delete"]
  /\ UNCHANGED <<lastError, sent, logCount>>

\* a handler that treats the probe's 404 like any other error
ProbeNotFoundThrows(d) ==
  /\ Throw(d, "Error")
  /\ UNCHANGED <<sent, logCount>>

\* a handler that goes on to the delete although the probe answered 404
ProbeNotFoundGoesOn(d) ==
  /\ pc' = [pc EXCEPT ![d] = "delete"]
  /\ UNCHANGED <<lastError, sent, logCount>>

\* lines 73-78: a 404 is taken as already removed: success event, return
ProbeNotFound(d) ==
  /\ Emit(d, LogEvent("success", task, "task:remove-openshift:finished",
                      names[d].openshiftProject))
  /\ pc' = [pc EXCEPT ![d] = "returned"]
  /\ UNCHANGED lastError

\* lines 79-82: any other error is logged and a new Error is thrown
ProbeError(d) ==
  /\ Throw(d, "Error")
  /\ UNCHANGED <<sent, logCount>>

\* lines 67-83: the existence check
Probe(d) ==
  /\ pc[d] = "probe"
  /\ \E r \in ProbeResults(names[d].openshiftProject) :
       /\ Record(d, Call("get", names[d].openshiftProject, r))
       /\ CASE r = "200" -> ProbeFound(d)
            [] r = "404" -> ProbeNotFound(d)
            [] OTHER -> ProbeError(d)
  /\ UNCHANGED <<mig, task, cluster, registry, attempt, names, prev, deleted>>

\* what openshift.projects(name).delete can answer in the current cluster state
DeleteResults(name) ==
  (IF name \in cluster THEN {"ok"} ELSE {"404"}) \cup {"err"}

\* a handler that sends no success event after the delete
DeleteOkSilent(d) ==
  /\ cluster' = cluster \ { names[d].openshiftProject }
  /\ deleted' = deleted \cup {d}
  /\ pc' = [pc EXCEPT ![d] = "registry"]
  /\ UNCHANGED <<lastError, sent, logCount>>

\* lines 88-91: the delete resolved: success event, on to the registry update
DeleteOk(d) ==
  /\ cluster' = cluster \ { names[d].openshiftProject }
  /\ deleted' = deleted \cup {d}
  /\ Emit(d, LogEvent("success", task, "task:remove-openshift:finished",
                      names[d].openshiftProject))
  /\ pc' = [pc EXCEPT ![d] = "registry"]
  /\ UNCHANGED lastError

\* a handler that logs the delete's error and goes on to the registry update
DeleteErrorSwallowed(d) ==
  /\ pc' = [pc EXCEPT ![d] = "registry"]
  /\ UNCHANGED <<lastError, cluster, deleted, sent, logCount>>

\* lines 92-95: every error of the delete, a 404 included, is rethrown
DeleteError(d) ==
  /\ Throw(d, "Error")
  /\ UNCHANGED <<cluster, deleted, sent, logCount>>

\* lines 85-95: the delete
Delete(d) ==
  /\ pc[d] = "delete"
  /\ \E r \in DeleteResults(names[d].openshiftProject) :
       /\ Record(d, Call("delete", names[d].openshiftProject, r))
       /\ IF r = "ok" THEN DeleteOk(d) ELSE DeleteError(d)
  /\ UNCHANGED <<mig, task, registry, attempt, names, prev>>

\* outcomes of deleteEnvironment
RegistryResults == { "ok", "err" }

\* lines 99-100: the environment is marked deleted and the handler returns
MarkOk(d) ==
  /\ registry' = registry \cup { <<names[d].environmentName, task.projectName>> }
  /\ pc' = [pc EXCEPT ![d] = "returned"]
  /\ UNCHANGED lastError

\* a handler that logs the registry error and returns normally
MarkErrorSwallowed(d) ==
  /\ pc' = [pc EXCEPT ![d] = "returned"]
  /\ UNCHANGED <<lastError, registry>>

\* lines 101-104: the error is logged and a new Error is thrown
MarkError(d) ==
  /\ Throw(d, "Error")
  /\ UNCHANGED registry

\* lines 97-104: await deleteEnvironment(environmentName, projectName)
MarkDeleted(d) ==
  /\ pc[d] = "registry"
  /\ \E r \in RegistryResults :
       /\ Record(d, Call("deleteEnvironment",
                         <<names[d].environmentName, task.projectName>>, r))
       /\ IF r = "ok" THEN MarkOk(d) ELSE MarkError(d)
  /\ UNCHANGED <<mig, task, cluster, attempt, names, prev, sent, logCount, deleted>>

(* ---------------------------- retry and death handlers ----------------- *)

\* a retry handler that reports nothing
retryHandlerSilent(d) == UNCHANGED <<sent, logCount>>

\* lines 128-145: one warn event naming ocsafety(project-branch||number)
retryHandler(d) ==
  Emit(d, LogEvent("warn", task, "task:remove-openshift:retry",
                   HandlerProjectName(task)))

\* a death handler that reports at the level of the retry handler
deathHandlerWarns(d) ==
  Emit(d, LogEvent("warn", task, "task:remove-openshift:error",
                   HandlerProjectName(task)))

\* lines 108-126: one error event naming ocsafety(project-branch||number)
deathHandler(d) ==
  Emit(d, LogEvent("error", task, "task:remove-openshift:error",
                   HandlerProjectName(task)))

(* ---------------------------- consumeTasks ----------------------------- *)

\* the consumer hands the message to messageConsumer: a new attempt starts
Deliver(d) ==
  /\ pc[d] = "queued"
  /\ pc' = [pc EXCEPT ![d] = "info"]
  /\ attempt' = [attempt EXCEPT ![d] = @ + 1]
  /\ names' = [names EXCEPT ![d] = NoNames]
  /\ trace' = [trace EXCEPT ![d] = <<>>]
  /\ prev' = [prev EXCEPT ![d] = trace[d]]
  /\ sent' = [sent EXCEPT ![d] = <<>>]
  /\ lastError' = [lastError EXCEPT ![d] = "none"]
  /\ UNCHANGED <<mig, task, cluster, registry, logCount, deleted>>

\* the handler returned: the message is acknowledged
Ack(d) ==
  /\ pc[d] = "returned"
  /\ pc' = [pc EXCEPT ![d] = "acked"]
  /\ UNCHANGED <<mig, task, cluster, registry, attempt, names, trace, prev, sent,
                 lastError, logCount, deleted>>

\* the handler threw with attempts left: retry callback, then redelivery
Retry(d) ==
  /\ pc[d] = "failed"
  /\ attempt[d] < MaxAttempts
  /\ retryHandler(d)
  /\ pc' = [pc EXCEPT ![d] = "queued"]
  /\ UNCHANGED <<mig, task, cluster, registry, attempt, names, trace, prev,
                 lastError, deleted>>

\* the handler threw on the last attempt: dead-letter callback, no redelivery
DeadLetter(d) ==
  /\ pc[d] = "failed"
  /\ attempt[d] >= MaxAttempts
  /\ deathHandler(d)
  /\ pc' = [pc EXCEPT ![d] = "dead"]
  /\ UNCHANGED <<mig, task, cluster, registry, attempt, names, trace, prev,
                 lastError, deleted>>

(* ---------------------------- specification ---------------------------- *)

Next ==
  \E d \in Deliveries :
    \/ Deliver(d)
    \/ GetInfo(d)
    \/ Probe(d)
    \/ Delete(d)
    \/ MarkDeleted(d)
    \/ Ack(d)
    \/ Retry(d)
    \/ DeadLetter(d)

Spec == Init /\ [][Next]_vars

TypeOK ==
  /\ task \in [ projectName : ProjectNames, branch : Branches,
                pullrequestNumber : PullRequestNumbers, type : Types ]
  /\ pc \in [Deliveries -> { "queued", "info", "probe", "delete", "registry",
                             "returned", "failed", "acked", "dead" }]
  /\ attempt \in [Deliveries -> 0..MaxAttempts]
  /\ deleted \subseteq Deliveries

(* ---------------------------- vocabulary of the claims ----------------- *)

\* the current attempt of d made the call op and got the result res
HasCall(d, op, res) ==
  \E i \in DOMAIN trace[d] : trace[d][i].op = op /\ trace[d][i].res = res

\* how often the current attempt of d made the call op
Calls(d, op) == Cardinality({ i \in DOMAIN trace[d] : trace[d][i].op = op })

\* how many events of a level the current attempt of d has sent
Sent(d, level) == Cardinality({ i \in DOMAIN sent[d] : sent[d][i].level = level })

\* the handler returned normally in the current attempt
Returned(d) == pc[d] \in { "returned", "acked" }

\* the handler threw in the current attempt
Failed(d) == pc[d] \in { "failed", "dead" } \/ (pc[d] = "queued" /\ attempt[d] > 0)

\* the current attempt succeeded after deleting the cluster project
Succeeded(d) == Returned(d) /\ HasCall(d, "delete", "ok")

\* the current attempt succeeded without deleting anything
SucceededNoop(d) == Returned(d) /\ Calls(d, "delete") = 0

\* some external call of the current attempt failed for a reason other than
\* the project being absent
Faulted(d) == \E i \in DOMAIN trace[d] : trace[d][i].res \in { "err", "noconfig" }

\* the attempt before the current one ended in a failed delete call that the
\* cluster served when the project was already gone
PrevDeleteFailedGone(d) ==
  /\ prev[d] # <<>>
  /\ LET c == prev[d][Len(prev[d])]
     IN c.op = "delete" /\ c.res # "ok" /\ ~c.existed

(* ---------------------------- claims ----------------------------------- *)

\* C1: idempotence.  For a valid task, an attempt whose existence probe is
\* served after the cluster project has been removed, and is answered, ends
\* in the no-op success: the handler returns without deleting, without an
\* error, and no warning or error event is sent for the attempt.
C1_Idempotent ==
  \A d \in Deliveries :
    ( /\ ValidTask(task)
      /\ \E i \in DOMAIN trace[d] :
           /\ trace[d][i].op = "get"
           /\ ~trace[d][i].existed
           /\ trace[d][i].res # "err" )
    => /\ SucceededNoop(d)
       /\ lastError[d] = "none"
       /\ Sent(d, "warn") = 0
       /\ Sent(d, "error") = 0

\* a second attempt of a delivery that itself deleted the project in its
\* first attempt has been acknowledged as a no-op
C1_Witness ==
  \E d \in Deliveries :
    /\ ValidTask(task)
    /\ attempt[d] = 2
    /\ d \in deleted
    /\ pc[d] = "acked"
    /\ SucceededNoop(d)

\* C2: when the probe reports not found, the attempt calls delete zero
\* times, calls deleteEnvironment(environmentName, projectName) exactly
\* once and sends one success event.
C2_NotFoundUpdatesRegistry ==
  \A d \in Deliveries :
    (Returned(d) /\ HasCall(d, "get", "404"))
    => /\ Calls(d, "delete") = 0
       /\ Calls(d, "deleteEnvironment") = 1
       /\ HasCall(d, "deleteEnvironment", "ok")
       /\ RegistryKey \in registry
       /\ Sent(d, "success") = 1

\* C3: a delivery whose delete succeeded is acknowledged only after the
\* registry record of the task has been marked deleted.
C3_AckedImpliesMarked ==
  \A d \in Deliveries :
    (pc[d] = "acked" /\ d \in deleted) => RegistryKey \in registry

\* C4: a delete call answered not-found after the probe found the project
\* does not fail the attempt: the handler goes on to the registry update.
C4_DeleteRaceIsNoop ==
  \A d \in Deliveries :
    HasCall(d, "delete", "404")
    => /\ ~Failed(d)
       /\ pc[d] \in { "registry", "returned", "acked" }

\* C5: retry safety.  When the previous attempt ended in a delete call that
\* failed although the project was already gone, the next attempt, unless
\* one of its own calls fails in transport, ends in the no-op success.
C5_RetrySafety ==
  \A d \in Deliveries :
    ( /\ PrevDeleteFailedGone(d)
      /\ Returned(d) \/ Failed(d)
      /\ ~Faulted(d) )
    => SucceededNoop(d)

\* a retry after a delete that lost the race was acknowledged as a no-op
C5_Witness ==
  \E d \in Deliveries :
    /\ PrevDeleteFailedGone(d)
    /\ prev[d][Len(prev[d])].res = "404"
    /\ pc[d] = "acked"
    /\ SucceededNoop(d)

\* C6: within one attempt the delete is issued only directly after a probe
\* that answered found, and deleteEnvironment only directly after a delete
\* that succeeded or a probe that answered not found, with the project gone
\* and no failed cluster call earlier in the attempt.
C6_OrderedAndGated ==
  \A d \in Deliveries : \A i \in DOMAIN trace[d] :
    /\ trace[d][i].op = "delete"
       => /\ i > 1
          /\ trace[d][i-1].op = "get"
          /\ trace[d][i-1].res = "200"
    /\ trace[d][i].op = "deleteEnvironment"
       => /\ i > 1
          /\ \/ trace[d][i-1].op = "delete" /\ trace[d][i-1].res = "ok"
             \/ trace[d][i-1].op = "get" /\ trace[d][i-1].res = "404"
          /\ ~trace[d][i].existed
          /\ \A j \in 1..(i-1) :
               trace[d][j].op \in { "get", "delete" }
               => trace[d][j].res \in { "200", "ok", "404" }
                  /\ ~(trace[d][j].op = "delete" /\ trace[d][j].res = "404")

\* an attempt has made the probe, the delete and the registry update
C6_Witness ==
  \E d \in Deliveries :
    /\ HasCall(d, "get", "200")
    /\ HasCall(d, "delete", "ok")
    /\ HasCall(d, "deleteEnvironment", "ok")

\* C7: duplicate delivery.  At most one delete succeeds, and once both
\* deliveries of a task whose project was deleted are acknowledged, the
\* cluster project is absent and the registry record is marked deleted.
C7_DuplicateDeliverySafe ==
  /\ Cardinality(deleted) <= 1
  /\ ( /\ ValidTask(task)
       /\ deleted # {}
       /\ \A d \in Deliveries : pc[d] = "acked" )
     => /\ ClusterName \notin cluster
        /\ RegistryKey \in registry

\* C8: an attempt from which the handler returned has sent exactly one
\* success event and no warning event, on the deleting path and on the
\* already-removed path alike.
C8_OneSuccessEvent ==
  \A d \in Deliveries :
    Returned(d) => Sent(d, "success") = 1 /\ Sent(d, "warn") = 0

\* one delivery was acknowledged after deleting, the other as a no-op
C8_Witness ==
  \E d, e \in Deliveries :
    /\ pc[d] = "acked" /\ Succeeded(d)
    /\ pc[e] = "acked" /\ SucceededNoop(e) /\ HasCall(e, "get", "404")

\* C9: for a task whose type is neither branch nor pullrequest no cluster
\* probe, cluster delete or registry update is issued, the retry callback
\* is never invoked, and the first attempt is the only one.
C9_UnknownKindDeadLettered ==
  task.type \notin { "branch", "pullrequest" }
  => \A d \in Deliveries :
       /\ Calls(d, "get") = 0
       /\ Calls(d, "delete") = 0
       /\ Calls(d, "deleteEnvironment") = 0
       /\ logCount[d]["warn"] = 0
       /\ attempt[d] <= 1
       /\ ~Returned(d)

\* C10: dead-letter exhaustion.  A failure of attempt number MaxAttempts
\* is followed by the dead-letter handler only, which sends the delivery's
\* one error event; no error event is sent otherwise; and a dead-lettered
\* delivery is never redelivered and makes no further call.
C10_DeadLetterOnce ==
  [][ \A d \in Deliveries :
        /\ (pc[d] = "failed" /\ attempt[d] = MaxAttempts /\ pc'[d] # pc[d])
           => /\ pc'[d] = "dead"
              /\ logCount'[d]["error"] = logCount[d]["error"] + 1
              /\ sent'[d][Len(sent'[d])].level = "error"
        /\ logCount'[d]["error"] = (IF pc'[d] = "dead" THEN 1 ELSE 0)
        /\ pc'[d] = "dead" => attempt'[d] = MaxAttempts
        /\ pc[d] = "dead"
           => /\ pc'[d] = "dead"
              /\ attempt'[d] = attempt[d]
              /\ trace'[d] = trace[d]
              /\ sent'[d] = sent[d]
              /\ logCount'[d] = logCount[d]
    ]_vars

\* a delivery was dead-lettered after cluster errors in its last two
\* attempts, and the other delivery went on to be acknowledged
C10_Witness ==
  \E d, e \in Deliveries :
    /\ pc[d] = "dead"
    /\ trace[d][Len(trace[d])].op \in { "get", "delete" }
    /\ trace[d][Len(trace[d])].res = "err"
    /\ prev[d] # <<>>
    /\ prev[d][Len(prev[d])].op \in { "get", "delete" }
    /\ prev[d][Len(prev[d])].res = "err"
    /\ pc[e] = "acked"

\* how often the consumer has invoked the retry callback for delivery d
Retries(d) ==
  IF attempt[d] = 0 THEN 0
  ELSE IF pc[d] = "queued" THEN attempt[d] ELSE attempt[d] - 1

\* C11: the warn events of a delivery are as many as its retries, each
\* retried attempt has sent exactly one of them by the time the task is
\* queued again, and the dead-lettered attempt is reported by one error
\* event and no warn event.
C11_WarningPerRetry ==
  \A d \in Deliveries :
    /\ logCount[d]["warn"] = Retries(d)
    /\ (pc[d] = "queued" /\ attempt[d] > 0)
       => Sent(d, "warn") = 1 /\ Sent(d, "error") = 0
    /\ pc[d] = "dead"
       => Sent(d, "warn") = 0 /\ Sent(d, "error") = 1

\* a delivery was retried once and then dead-lettered
C11_Witness ==
  \E d \in Deliveries :
    /\ pc[d] = "dead"
    /\ attempt[d] = 2
    /\ logCount[d]["warn"] = 1
    /\ logCount[d]["error"] = 1

\* C12: for a valid task, every warn or error event sent by the retry and
\* the dead-letter handler names the cluster project that messageConsumer
\* derives for the task and uses for its probe and delete calls.
C12_HandlerNamesSameProject ==
  \A d \in Deliveries : \A i \in DOMAIN sent[d] :
    (ValidTask(task) /\ sent[d][i].level \in { "warn", "error" })
    => sent[d][i].openshiftProject = ClusterName

\* C16: an attempt in which the handler threw has sent no success event.
C16_NoSuccessBeforeFailure ==
  \A d \in Deliveries : Failed(d) => Sent(d, "success") = 0

\* the error thrown is the blank `new Error`, which carries neither the
\* kind nor the message of the failure that caused it
BlankError(d) == lastError[d] = "Error"

\* the call on which the current attempt of d failed
FailedCall(d) == trace[d][Len(trace[d])].op

\* C17: the error a failed attempt throws tells a failed registry update
\* from a failed cluster probe or delete, and carries the message of the
\* underlying failure.
C17_ErrorIdentifiesFailure ==
  \A d, e \in Deliveries :
    /\ (pc[d] = "failed" /\ trace[d] # <<>>
        /\ FailedCall(d) \in { "get", "delete", "deleteEnvironment" })
       => ~BlankError(d)
    /\ ( /\ pc[d] = "failed" /\ trace[d] # <<>>
         /\ pc[e] = "failed" /\ trace[e] # <<>>
         /\ FailedCall(d) = "deleteEnvironment"
         /\ FailedCall(e) \in { "get", "delete" } )
       => lastError[d] # lastError[e]

\* an external call of the current attempt of d failed: the lookup, a probe
\* with an error other than not-found, the delete, or the registry update
ExternalFailure(d) ==
  \E i \in DOMAIN trace[d] :
    \/ trace[d][i].res \in { "err", "noconfig" }
    \/ trace[d][i].op = "delete" /\ trace[d][i].res = "404"

\* C18: no external failure is swallowed.  An attempt with a failed probe
\* (other than not-found), delete or registry update ends with the handler
\* throwing, and once the consumer has dealt with it the attempt's last
\* event is the retry handler's warn or the dead-letter handler's error.
C18_NoFailureSwallowed ==
  \A d \in Deliveries :
    ExternalFailure(d)
    => /\ Failed(d)
       /\ lastError[d] # "none"
       /\ pc[d] = "queued"
          => sent[d] # <<>> /\ sent[d][Len(sent[d])].level = "warn"
       /\ pc[d] = "dead"
          => sent[d] # <<>> /\ sent[d][Len(sent[d])].level = "error"

\* a failed registry update was retried and a failed probe dead-lettered
C18_Witness ==
  \E d, e \in Deliveries :
    /\ pc[d] = "queued" /\ HasCall(d, "deleteEnvironment", "err")
    /\ pc[e] = "dead" /\ HasCall(e, "get", "err")

\* C19: an attempt whose project lookup rejects, or returns a project
\* without openshift configuration, fails without a cluster probe, cluster
\* delete or registry update and without a success event.
C19_LookupFailureStopsAttempt ==
  \A d \in Deliveries :
    ( \/ HasCall(d, "getOpenShiftInfoForProject", "err")
      \/ HasCall(d, "getOpenShiftInfoForProject", "noconfig") )
    => /\ Failed(d)
       /\ Calls(d, "get") = 0
       /\ Calls(d, "delete") = 0
       /\ Calls(d, "deleteEnvironment") = 0
       /\ Sent(d, "success") = 0
       /\ names[d] = NoNames

\* one delivery failed on a rejected lookup, the other on a project
\* without openshift configuration, while the cluster project exists
C19_Witness ==
  \E d, e \in Deliveries :
    /\ ClusterName \in cluster
    /\ pc[d] = "failed" /\ HasCall(d, "getOpenShiftInfoForProject", "err")
    /\ pc[e] = "failed" /\ HasCall(e, "getOpenShiftInfoForProject", "noconfig")

(* ---------------------------- one attempt, many payloads --------------- *)

\* longest project name and branch name of the payloads below
MaxNameLen == 2

\* the non-empty strings over chars up to length n
Strings(chars, n) == UNION { [1..k -> chars] : k \in 1..n }

\* characters of project names: lower case, upper case, punctuation, digit
ProjectChars == { "a", "B", "_", "7" }

\* characters of branch names: lower case, upper case, slash, hyphen
BranchChars == { "x", "Y", "/", "-" }

\* payloads with every project name and branch name up to MaxNameLen:
\* branch tasks, pull request tasks without and with a branch name, and
\* tasks whose type is unknown or missing
WideTasks ==
  { Task(p, b, NoNumber, "branch") :
      p \in Strings(ProjectChars, MaxNameLen), b \in Strings(BranchChars, MaxNameLen) }
  \cup
  { Task(p, b, n, "pullrequest") :
      p \in Strings(ProjectChars, MaxNameLen), b \in { Undefined, <<"x">> },
      n \in { 7, 42, 105 } }
  \cup
  { Task(p, <<"x">>, NoNumber, ty) :
      p \in Strings(ProjectChars, 1), ty \in { "deploy", "undefined" } }

\* as Init, with the payload drawn from WideTasks
AttemptInit ==
  /\ task \in WideTasks
  /\ cluster \in SUBSET { ResolveNames(task).openshiftProject }
  /\ registry = {}
  /\ pc = [d \in Deliveries |-> "queued"]
  /\ attempt = [d \in Deliveries |-> 0]
  /\ names = [d \in Deliveries |-> NoNames]
  /\ trace = [d \in Deliveries |-> <<>>]
  /\ prev = [d \in Deliveries |-> <<>>]
  /\ sent = [d \in Deliveries |-> <<>>]
  /\ lastError = [d \in Deliveries |-> "none"]
  /\ logCount = [d \in Deliveries |-> [l \in Levels |-> 0]]
  /\ deleted = {}
  /\ mig = MigIdle

\* one delivery of the message and the one attempt of messageConsumer on it
AttemptNext ==
  \/ Deliver("w1")
  \/ GetInfo("w1")
  \/ Probe("w1")
  \/ Delete("w1")
  \/ MarkDeleted("w1")
  \/ Ack("w1")

AttemptSpec == AttemptInit /\ [][AttemptNext]_vars

\* sanitize as the specification words it: a digit, a lower-case letter and
\* a hyphen stay, an upper-case letter becomes its lower-case letter, every
\* other character becomes a hyphen
SanitizeChar(c) ==
  CASE c \in { Digits[i] : i \in DOMAIN Digits } -> c
    [] c \in { LowerCase[i] : i \in DOMAIN LowerCase } -> c
    [] c = "-" -> c
    [] c \in { UpperCase[i] : i \in DOMAIN UpperCase } ->
         LowerCase[CHOOSE i \in DOMAIN UpperCase : UpperCase[i] = c]
    [] OTHER -> "-"

Sanitize(s) == [i \in DOMAIN s |-> SanitizeChar(s[i])]

\* the attempt of w1 has passed name resolution
Resolved == pc["w1"] \notin { "queued", "info" } /\ HasCall("w1", "getOpenShiftInfoForProject", "ok")

\* C13: for a valid pull request task the handler derives the cluster
\* project name sanitize(projectName) + "-pr-" + number and the environment
\* name "pr-" + number, and probes and deletes under that project name.
C13_PullRequestNames ==
  (Resolved /\ ValidTask(task) /\ task.type = "pullrequest")
  => /\ names["w1"].openshiftProject =
          Sanitize(task.projectName) \o <<"-","p","r","-">>
            \o NumToStr(task.pullrequestNumber)
     /\ names["w1"].environmentName =
          <<"p","r","-">> \o NumToStr(task.pullrequestNumber)
     /\ \A i \in DOMAIN trace["w1"] :
          trace["w1"][i].op \in { "get", "delete" }
          => trace["w1"][i].arg =
               Sanitize(task.projectName) \o <<"-","p","r","-">>
                 \o NumToStr(task.pullrequestNumber)

\* a pull request task with upper case and punctuation in its project name
\* and a three-digit number has been probed
C13_Witness ==
  /\ task.type = "pullrequest"
  /\ task.projectName = <<"B","_">>
  /\ task.pullrequestNumber = 105
  /\ Calls("w1", "get") = 1

\* C14: for a valid branch task the handler derives the cluster project
\* name sanitize(projectName) + "-" + sanitize(branch), keeps the raw branch
\* as environment name, and calls deleteEnvironment with the raw branch and
\* the raw project name.
C14_BranchNames ==
  (Resolved /\ ValidTask(task) /\ task.type = "branch")
  => /\ names["w1"].openshiftProject =
          Sanitize(task.projectName) \o <<"-">> \o Sanitize(task.branch)
     /\ names["w1"].environmentName = task.branch
     /\ \A i \in DOMAIN trace["w1"] :
          trace["w1"][i].op = "deleteEnvironment"
          => trace["w1"][i].arg = <<task.branch, task.projectName>>
     /\ registry \subseteq { <<task.branch, task.projectName>> }

\* the registry update was made for a branch with an upper-case letter and
\* a slash, which the cluster project name does not keep
C14_Witness ==
  /\ task.type = "branch"
  /\ task.branch = <<"Y","/">>
  /\ task.projectName = <<"B","_">>
  /\ HasCall("w1", "deleteEnvironment", "ok")
  /\ registry = { << <<"Y","/">>, <<"B","_">> >> }

\* C15: every name passed to the cluster's get or delete consists of
\* lower-case letters, digits and hyphens only.
C15_LegalClusterNames ==
  \A d \in Deliveries : \A i \in DOMAIN trace[d] :
    trace[d][i].op \in { "get", "delete" }
    => \A k \in DOMAIN trace[d][i].arg :
         trace[d][i].arg[k] = SanitizeChar(trace[d][i].arg[k])

(* ---------------------------- reset-project-keys ----------------------- *)
(* The migration script: for every project record, delete the users that   *)
(* hold the project's current key, clear the key, generate and save a new  *)
(* one, link it to a default user and register it as gitlab deploy key.    *)
(* The script is sequential; each awaited call is one action.  mig holds   *)
(* its position (idx, step), the database tables it touches, and per       *)
(* project the writes to private_key and the rows deleted.                 *)

\* the worker's variables, which the script leaves alone
workerVars == <<task, cluster, registry, pc, attempt, names, trace, prev, sent,
                lastError, logCount, deleted>>

\* project records selected by the script (projectRecords)
NumProjects == 2

Projects == 1..NumProjects

\* what project.private_key can hold before the script runs: nothing, a
\* value sshpk cannot parse, or one of two keys
\* private_key IS NULL
NullKey == <<"NULL", 0>>

\* a stored value that parsePrivateKey rejects
BadKey == <<"bad", 0>>

\* a stored key that parses
OldKey(n) == <<"old", n>>

\* a user that holds a key
User(n) == <<"user", n>>

\* no user, no key: the unused column of a deleted row
None == <<"none", 0>>

\* a row the script deleted
Row(table, usid, key) == [ table |-> table, usid |-> usid, key |-> key ]

StoredKeys == { NullKey, BadKey, OldKey(1), OldKey(2) }

\* the key generatePrivateKeyEd25519 returns while project i is processed
NewKey(i) == <<"new", i>>

\* the user the script creates for project i
DefaultUser(i) == <<"default-user", i>>

\* the script has been started on a database in which users 1 and 2 exist
\* in keycloak, user 1 holds key 1, user 2 and the vanished user 3 hold key 2
MigInit ==
  /\ task = Task(<<"a","c">>, Undefined, 42, "pullrequest")
  /\ cluster = {}
  /\ registry = {}
  /\ pc = [d \in Deliveries |-> "queued"]
  /\ attempt = [d \in Deliveries |-> 0]
  /\ names = [d \in Deliveries |-> NoNames]
  /\ trace = [d \in Deliveries |-> <<>>]
  /\ prev = [d \in Deliveries |-> <<>>]
  /\ sent = [d \in Deliveries |-> <<>>]
  /\ lastError = [d \in Deliveries |-> "none"]
  /\ logCount = [d \in Deliveries |-> [l \in Levels |-> 0]]
  /\ deleted = {}
  /\ \E k \in [Projects -> StoredKeys] :
       mig = [ status |-> "running", reason |-> "none",
               idx |-> 1, step |-> "start",
               orig |-> k, key |-> k,
               users |-> { User(1), User(2) },
               sshKeys |-> { OldKey(1), OldKey(2) },
               links |-> { <<User(1), OldKey(1)>>, <<User(2), OldKey(2)>>,
                           <<User(3), OldKey(2)>> },
               rows |-> {}, cur |-> None,
               writes |-> [i \in Projects |-> <<>>],
               dels |-> [i \in Projects |-> {}] ]

\* the script is inside the loop, at step s of the current project
MigAt(s) ==
  /\ mig.status = "running"
  /\ mig.idx \in Projects
  /\ mig.step = s

\* an error leaves the async function: the loop is abandoned
MigAbort(why) ==
  mig' = [mig EXCEPT !.status = "aborted", !.reason = why]

\* a script that logs the parse error and goes on to clear the key
MigParseFailedLogged ==
  mig' = [mig EXCEPT !.step = "clear"]

\* lines 87-91: parsePrivateKey raised, the catch throws a new Error
MigParseFailed == MigAbort("parse")

\* lines 56-92: next project record; gitlab project and group are looked up
\* (a failed group lookup is only logged), then the stored key is parsed
MigStartProject ==
  /\ MigAt("start")
  /\ CASE mig.key[mig.idx] = NullKey -> mig' = [mig EXCEPT !.step = "save"]
       [] mig.key[mig.idx] = BadKey -> MigParseFailed
       [] OTHER -> mig' = [mig EXCEPT !.step = "select"]
  /\ UNCHANGED workerVars

\* lines 95-98: the users that hold the current key, by fingerprint
MigSelectUsers ==
  /\ MigAt("select")
  /\ \/ mig' = [mig EXCEPT
                  !.rows = { l[1] : l \in { m \in mig.links :
                                              m[2] = mig.key[mig.idx]
                                              /\ m[2] \in mig.sshKeys } },
                  !.step = "users"]
     \/ MigAbort("query")
  /\ UNCHANGED workerVars

\* line 100: the for loop over userRows takes the next row, or ends
MigNextUser ==
  /\ MigAt("users")
  /\ IF mig.rows = {}
     THEN mig' = [mig EXCEPT !.step = "clear", !.cur = None]
     ELSE \E u \in mig.rows :
            mig' = [mig EXCEPT !.cur = u, !.rows = @ \ {u}, !.step = "delUser"]
  /\ UNCHANGED workerVars

\* lines 103-109: UserModel.deleteUser; "User not found" is ignored, any
\* other error is rethrown
MigDeleteUser ==
  /\ MigAt("delUser")
  /\ \/ /\ mig.cur \in mig.users
        /\ mig' = [mig EXCEPT !.users = @ \ {mig.cur},
                              !.dels[mig.idx] = @ \cup { Row("user", mig.cur, None) },
                              !.step = "delKey"]
     \/ /\ mig.cur \notin mig.users
        /\ mig' = [mig EXCEPT !.step = "delKey"]
     \/ MigAbort("deleteUser")
  /\ UNCHANGED workerVars

\* lines 112-117: DELETE FROM ssh_key WHERE key_value = :key
MigDeleteKey ==
  /\ MigAt("delKey")
  /\ \/ mig' = [mig EXCEPT
                  !.sshKeys = @ \ { mig.key[mig.idx] },
                  !.dels[mig.idx] =
                     @ \cup { Row("ssh_key", None, k) : k \in mig.sshKeys \cap { mig.key[mig.idx] } },
                  !.step = "delLink"]
     \/ MigAbort("query")
  /\ UNCHANGED workerVars

\* lines 120-125: DELETE FROM user_ssh_key WHERE usid = :usid
MigDeleteLink ==
  /\ MigAt("delLink")
  /\ \/ mig' = [mig EXCEPT
                  !.links = { l \in @ : l[1] # mig.cur },
                  !.dels[mig.idx] =
                     @ \cup { Row("user_ssh_key", l[1], l[2]) : l \in { m \in mig.links : m[1] = mig.cur } },
                  !.step = "users"]
     \/ MigAbort("query")
  /\ UNCHANGED workerVars

\* a script that skips the statement that clears the key
MigClearKeySkipped ==
  /\ MigAt("clear")
  /\ mig' = [mig EXCEPT !.step = "save"]
  /\ UNCHANGED workerVars

\* lines 128-138: UPDATE project SET private_key = NULL WHERE id = :pid
MigClearKey ==
  /\ MigAt("clear")
  /\ \/ mig' = [mig EXCEPT !.key[mig.idx] = NullKey,
                           !.writes[mig.idx] = Append(@, NullKey),
                           !.step = "save"]
     \/ MigAbort("query")
  /\ UNCHANGED workerVars

\* lines 145-165: generate a key pair, UPDATE project SET private_key = :pkey
MigSaveKey ==
  /\ MigAt("save")
  /\ \/ mig' = [mig EXCEPT !.key[mig.idx] = NewKey(mig.idx),
                           !.writes[mig.idx] = Append(@, NewKey(mig.idx)),
                           !.step = "link"]
     \/ MigAbort("query")
  /\ UNCHANGED workerVars

\* lines 167-211: no user holds the new key, so a default user is created
\* and the public key inserted and linked; an error in that is only logged
MigLinkUser ==
  /\ MigAt("link")
  /\ \/ mig' = [mig EXCEPT
                  !.users = @ \cup { DefaultUser(mig.idx) },
                  !.sshKeys = @ \cup { NewKey(mig.idx) },
                  !.links = @ \cup { <<DefaultUser(mig.idx), NewKey(mig.idx)>> },
                  !.step = "deploy"]
     \/ mig' = [mig EXCEPT !.step = "deploy"]
     \/ MigAbort("query")
  /\ UNCHANGED workerVars

\* lines 213-235: add the user to the group (an error is only logged), add
\* the deploy key to the gitlab project (an error other than "has already
\* been taken" is rethrown); then the loop goes to the next record
MigDeployKey ==
  /\ MigAt("deploy")
  /\ \/ mig' = [mig EXCEPT !.idx = @ + 1, !.step = "start"]
     \/ MigAbort("deployKey")
  /\ UNCHANGED workerVars

\* lines 237-239: the loop is over: Reset completed
MigFinish ==
  /\ mig.status = "running"
  /\ mig.idx = NumProjects + 1
  /\ mig' = [mig EXCEPT !.status = "done"]
  /\ UNCHANGED workerVars

MigNext ==
  \/ MigStartProject
  \/ MigSelectUsers
  \/ MigNextUser
  \/ MigDeleteUser
  \/ MigDeleteKey
  \/ MigDeleteLink
  \/ MigClearKey
  \/ MigSaveKey
  \/ MigLinkUser
  \/ MigDeployKey
  \/ MigFinish

MigSpec == MigInit /\ [][MigNext]_vars

\* ---------------------------------------------------------------------
\* reset-project-keys: what the claims speak about

\* the loop has gone past project i: it was processed without error
MigProcessed(i) == mig.idx > i

\* nothing of project i has been deleted, cleared or replaced
MigUntouched(i) ==
  /\ mig.key[i] = mig.orig[i]
  /\ mig.writes[i] = <<>>
  /\ mig.dels[i] = {}

\* C20: a project whose stored private key cannot be parsed stops the
\* script at the parse: no user, ssh_key or user_ssh_key row is deleted for
\* it, its private key is neither cleared nor replaced, the loop never gets
\* past it and no later project is touched; a project processed without
\* error ends with the new key stored, and when it had a key, that key was
\* set to NULL before the new one was saved
C20_ParseAbortsBeforeChange ==
  /\ \A i \in Projects :
       mig.orig[i] = BadKey =>
         /\ MigUntouched(i)
         /\ mig.idx <= i
         /\ mig.idx = i => mig.step = "start"
         /\ \A j \in Projects : j > i => MigUntouched(j)
  /\ (mig.status = "aborted" /\ mig.reason = "parse") =>
       /\ mig.orig[mig.idx] = BadKey
       /\ \A j \in Projects : j >= mig.idx => MigUntouched(j)
  /\ \A i \in Projects :
       MigProcessed(i) =>
         /\ mig.key[i] = NewKey(i)
         /\ mig.writes[i] = IF mig.orig[i] = NullKey
                            THEN << NewKey(i) >>
                            ELSE << NullKey, NewKey(i) >>

\* the script aborted at the unparseable key of the second project after it
\* had replaced the key of the first and deleted the rows of its holder
C20_Witness ==
  /\ mig.status = "aborted"
  /\ mig.reason = "parse"
  /\ mig.idx = 2
  /\ mig.orig[1] = OldKey(1)
  /\ mig.writes[1] = << NullKey, NewKey(1) >>
  /\ mig.dels[1] # {}
  /\ mig.key[2] = BadKey

====
